---- MODULE Spec2Model ----
(***************************************************************************)
(* Model of the hpm package backend (source-code/backend): the install /   *)
(* remove / verify transactions of main.rs over the on-disk store and the  *)
(* JSON state registry, and the directory hasher of verify.rs.             *)
(***************************************************************************)
EXTENDS Integers, Sequences, FiniteSets, TLC

VARIABLES
    finalTree,   \* the directory tree at <path>            (install / remove argument)
    tmpTree,     \* the directory tree at <path>.tmp        (staging tree)
    stateFile,   \* contents of STATE_PATH
    usrBin,      \* names present under /usr/bin
    pc,          \* position of the running backend process
    args,        \* argv of the running invocation
    manifest,    \* the Manifest value held by the running invocation
    loaded,      \* the State value held between load_state and save_state
    sbStatus,    \* wait status of the sandbox child of this invocation
    verified,    \* history: verify has succeeded in this invocation
    execSeen,    \* history: the sandbox child's exec of the install commands
    result,      \* outcome of the last invocation
    pre,         \* history: finalTree and stateFile when the invocation started
    calls,       \* number of invocations started
    tree,        \* HashSpec: the directory tree handed to compute_dir_hash / verify
    tree0,       \* HashSpec: the tree as it was when its checksum was taken
    lastOp,      \* HashSpec: the last operation applied to the tree
    vres,        \* HashSpec: results of verify against the checksum of tree0
    cfg,         \* ManifestSpec: the parsed info.hk handed to Manifest::load_info
    mres,        \* ManifestSpec: what Manifest::load_info returned for cfg
    argv,        \* CliSpec: the command line of the last invocation of main
    out,         \* CliSpec: exit status and stderr of the last invocation
    pkgTree,     \* CliSpec: the tree at STORE_PATH/<name>/current
    sb,          \* SandboxSpec: the sandbox child (setup_sandbox, child arm)
    conc         \* ConcSpec: two backend processes in update_state on one STATE_PATH

vars == <<finalTree, tmpTree, stateFile, usrBin, pc, args, manifest, loaded,
          sbStatus, verified, execSeen, result, pre, calls, tree, tree0, lastOp, vres,
          cfg, mres, argv, out, pkgTree, sb, conc>>

txVars == <<finalTree, tmpTree, stateFile, usrBin, pc, args, manifest, loaded,
            sbStatus, verified, execSeen, result, pre, calls>>

hashVars == <<tree, tree0, lastOp, vres>>

extVars == <<cfg, mres, argv, out, pkgTree, sb, conc>>

-----------------------------------------------------------------------------
(* Bounds *)

\* Largest byte value a modelled file holds (bytes are 0..MaxByte).
MaxByte == 1

\* Number of backend invocations in one behaviour.
MaxCalls == 2

-----------------------------------------------------------------------------
(* File names and their byte order (OsStr comparison is bytewise). *)

AllNames == {"a", "ab", "b", "c", "contents", "info.hk"}

NameBytes(n) ==
    CASE n = "a"        -> <<97>>
      [] n = "ab"       -> <<97, 98>>
      [] n = "b"        -> <<98>>
      [] n = "c"        -> <<99>>
      [] n = "contents" -> <<99, 111, 110, 116, 101, 110, 116, 115>>
      [] n = "info.hk"  -> <<105, 110, 102, 111, 46, 104, 107>>

MinOf(x, y) == IF x < y THEN x ELSE y

\* Lexicographic order on byte strings: <[u8] as Ord>::cmp(a, b) = Less.
BytesLt(s, t) ==
    \E i \in 1..(MinOf(Len(s), Len(t)) + 1) :
        /\ \A j \in 1..(i - 1) : s[j] = t[j]
        /\ \/ (i = Len(s) + 1 /\ i <= Len(t))
           \/ (i <= Len(s) /\ i <= Len(t) /\ s[i] < t[i])

NameLt(m, n) == BytesLt(NameBytes(m), NameBytes(n))

-----------------------------------------------------------------------------
(* Directory trees.  A node is absent, a regular file with its bytes, or a *)
(* directory mapping entry names to nodes.                                 *)

NoEntries == [n \in {} |-> 0]

Absent == [k |-> "absent", d |-> <<>>, e |-> NoEntries]

File(data) == [k |-> "file", d |-> data, e |-> NoEntries]

Dir(entries) == [k |-> "dir", d |-> <<>>, e |-> entries]

EmptyDir == Dir(NoEntries)

IsDir(n) == n.k = "dir"

IsFile(n) == n.k = "file"

Exists(n) == n.k # "absent"

\* The node at entry `name` of directory node `dir` (Absent when there is none).
Child(dir, name) ==
    IF IsDir(dir) /\ name \in DOMAIN dir.e THEN dir.e[name] ELSE Absent

\* Directory `dir` with entry `name` set to `node`.
WithEntry(dir, name, node) ==
    Dir([n \in (DOMAIN dir.e) \cup {name} |-> IF n = name THEN node ELSE dir.e[n]])

\* Directory `dir` without entry `name`.
WithoutEntry(dir, name) ==
    Dir([n \in (DOMAIN dir.e) \ {name} |-> dir.e[n]])

-----------------------------------------------------------------------------
(* Hashing: verify.rs (module version) and main.rs (the binary's verify).  *)

\* SHA-256 followed by hex::encode, idealised as collision free: the digest
\* of a byte stream is a value that determines the stream.
Sha256Hex(data) == [sha256 |-> data]

\* A checksum argument that is the digest of no modelled tree.
DeadBeef == [sha256 |-> <<255>>]

\* The names of S in descending byte order.
RECURSIVE SortNamesDesc(_)
SortNamesDesc(S) ==
    IF S = {} THEN <<>>
    ELSE LET m == CHOOSE x \in S : \A y \in S \ {x} : NameLt(y, x)
         IN  <<m>> \o SortNamesDesc(S \ {m})

\* The names of S in ascending byte order (the comparator handed to sort_by).
RECURSIVE SortNames(_)
SortNames(S) ==
    IF S = {} THEN <<>>
    ELSE LET m == CHOOSE x \in S : \A y \in S \ {x} : NameLt(x, y)
         IN  <<m>> \o SortNames(S \ {m})

\* WalkDir::new(dir).sort_by(..): the entries in the order the iterator yields
\* them.  The walk is depth first; sort_by orders the entries of each
\* directory as that directory is opened.  A root that cannot be opened
\* yields an error entry, which filter_map(|e| e.ok()) drops.
RECURSIVE WalkDir(_, _)
RECURSIVE WalkChildren(_, _, _)
WalkDir(node, path) ==
    IF ~Exists(node) THEN <<>>
    ELSE IF IsFile(node) THEN <<[path |-> path, is_file |-> TRUE]>>
    ELSE <<[path |-> path, is_file |-> FALSE]>>
             \o WalkChildren(node, SortNames(DOMAIN node.e), path)

WalkChildren(dir, names, path) ==
    IF names = <<>> THEN <<>>
    ELSE WalkDir(dir.e[Head(names)], Append(path, Head(names)))
             \o WalkChildren(dir, Tail(names), path)

\* .filter(|e| e.file_type().is_file()).map(|e| e.path().to_owned())
RECURSIVE FilterFiles(_)
FilterFiles(entries) ==
    IF entries = <<>> THEN <<>>
    ELSE (IF Head(entries).is_file THEN <<Head(entries).path>> ELSE <<>>)
             \o FilterFiles(Tail(entries))

\* The node reached from `node` along `path` (a sequence of names).
RECURSIVE NodeAt(_, _)
NodeAt(node, path) ==
    IF path = <<>> THEN node ELSE NodeAt(Child(node, Head(path)), Tail(path))

\* `node` with the node at `path` replaced by `new`.
RECURSIVE ReplaceAt(_, _, _)
ReplaceAt(node, path, new) ==
    IF path = <<>> THEN new
    ELSE WithEntry(node, Head(path), ReplaceAt(Child(node, Head(path)), Tail(path), new))

\* The paths compute_dir_hash reads, in the order it reads them.
HashedFiles(dir) == FilterFiles(WalkDir(dir, <<>>))

\* for file_path in entries { hasher.update(&fs::read(&file_path)?) }
RECURSIVE HashStream(_, _)
HashStream(dir, paths) ==
    IF paths = <<>> THEN <<>>
    ELSE NodeAt(dir, Head(paths)).d \o HashStream(dir, Tail(paths))

\* verify.rs: compute_dir_hash
compute_dir_hash(dir) == Sha256Hex(HashStream(dir, HashedFiles(dir)))

\* verify.rs: verify
verify_mod(dir, checksum) ==
    IF compute_dir_hash(dir) # checksum THEN "Checksum mismatch" ELSE "ok"

\* main.rs: verify.  Reads <path>/info.hk only.
verify(dir, checksum) ==
    IF ~IsFile(Child(dir, "info.hk")) THEN "Failed to read info.hk for verify"
    ELSE IF Sha256Hex(Child(dir, "info.hk").d) # checksum THEN "Checksum mismatch"
    ELSE "ok"

-----------------------------------------------------------------------------
(* Manifest loading (main.rs, Manifest::load_info).  The hk parser is an   *)
(* external crate: it is modelled by the tree of typed values it returns.  *)

None == [t |-> "none", s |-> "", b |-> FALSE, m |-> NoEntries]

Str(x) == [t |-> "str", s |-> x, b |-> FALSE, m |-> NoEntries]

Bool(x) == [t |-> "bool", s |-> "", b |-> x, m |-> NoEntries]

Map(f) == [t |-> "map", s |-> "", b |-> FALSE, m |-> f]

\* map.get(key)
Get(v, key) == IF v.t = "map" /\ key \in DOMAIN v.m THEN v.m[key] ELSE None

\* .get(key).and_then(|v| v.as_map().ok())
GetMap(v, key) == IF Get(v, key).t = "map" THEN Get(v, key) ELSE None

\* .get(key).and_then(|v| v.as_bool().ok()).unwrap_or(false)
GetBoolOr(v, key) == IF Get(v, key).t = "bool" THEN Get(v, key).b ELSE FALSE

\* Some value of the submap is not a string: v.as_string() fails.
HasNonString(sub) == sub.t = "map" /\ \E k \in DOMAIN sub.m : sub.m[k].t # "str"

\* The keys of a key-set submap whose value is the empty string.
KeySet(sub) ==
    IF sub.t = "map" THEN {k \in DOMAIN sub.m : sub.m[k] = Str("")} ELSE {}

MetaFoo == [name |-> Str("foo"), version |-> Str("1.0"),
            authors |-> Str("hackeros"), license |-> Str("MIT")]

SandboxClosed == Map([network |-> Bool(FALSE), gui |-> Bool(FALSE), dev |-> Bool(FALSE)])

\* A manifest with no install commands and no bins.
CfgPlain == Map([metadata |-> Map(MetaFoo), sandbox |-> SandboxClosed])

\* A manifest with one exposed binary and install commands.
CfgCmds ==
    Map([metadata |-> Map([name |-> Str("foo"), version |-> Str("2.0"),
                           authors |-> Str("hackeros"), license |-> Str("MIT"),
                           bins |-> Map([foo |-> Str("")])]),
         sandbox  |-> SandboxClosed,
         install  |-> Map([commands |-> Map([make |-> Str("")])])])

\* hk_parser::load_hk_file followed by resolve_interpolations, on the info.hk
\* texts the model holds: None is a parse error.
ParseHk(data) ==
    CASE data = <<0>> -> CfgPlain
      [] data = <<1>> -> CfgCmds
      [] data = <<>>  -> Map(NoEntries)
      [] OTHER        -> None

NoManifest ==
    [ok |-> FALSE, name |-> "", version |-> "", authors |-> "", license |-> "",
     bins |-> {}, network |-> FALSE, gui |-> FALSE, dev |-> FALSE,
     filesystem |-> {}, install_commands |-> {}]

\* Manifest::load_info from the point where info.hk has been parsed into
\* `config`; ok = FALSE is Err.  The key-set lists are kept as sets of keys.
ManifestFrom(config) ==
    LET metadata == Get(config, "metadata")
        specs    == GetMap(config, "specs")
        sandbox  == Get(config, "sandbox")
        required == {"name", "version", "authors", "license"}
    IN  IF \/ config.t # "map"
           \/ metadata.t # "map"
           \/ \E k \in required : Get(metadata, k).t # "str"
           \/ \E k \in DOMAIN specs.m : k # "dependencies" /\ specs.m[k].t # "str"
           \/ HasNonString(GetMap(specs, "dependencies"))
           \/ HasNonString(GetMap(metadata, "bins"))
           \/ sandbox.t # "map"
           \/ HasNonString(GetMap(sandbox, "filesystem"))
           \/ HasNonString(GetMap(GetMap(config, "install"), "commands"))
        THEN NoManifest
        ELSE [ok               |-> TRUE,
              name             |-> Get(metadata, "name").s,
              version          |-> Get(metadata, "version").s,
              authors          |-> Get(metadata, "authors").s,
              license          |-> Get(metadata, "license").s,
              bins             |-> KeySet(GetMap(metadata, "bins")),
              network          |-> GetBoolOr(sandbox, "network"),
              gui              |-> GetBoolOr(sandbox, "gui"),
              dev              |-> GetBoolOr(sandbox, "dev"),
              filesystem       |-> KeySet(GetMap(sandbox, "filesystem")),
              install_commands |-> KeySet(GetMap(GetMap(config, "install"), "commands"))]

\* Manifest::load_info on the directory `dir`.
load_info(dir) ==
    LET info == Child(dir, "info.hk")
    IN  ManifestFrom(IF IsFile(info) THEN ParseHk(info.d) ELSE None)

-----------------------------------------------------------------------------
(* The state registry (main.rs: State, load_state, save_state).            *)

StAbsent == [k |-> "absent", reg |-> NoEntries]

\* A complete serialization of the registry `reg`.
StOk(reg) == [k |-> "ok", reg |-> reg]

\* A truncated or partly written file.  A proper prefix of the serialized
\* object lacks its closing brace, so serde_json rejects it.
StPartial == [k |-> "partial", reg |-> NoEntries]

\* load_state: Ok(State::default()) when the file is absent, the parsed
\* registry when it parses, Err otherwise.
load_state(file) ==
    CASE file.k = "absent" -> [ok |-> TRUE, reg |-> NoEntries]
      [] file.k = "ok"     -> [ok |-> TRUE, reg |-> file.reg]
      [] OTHER             -> [ok |-> FALSE, reg |-> NoEntries]

\* The same entry update that forgets the versions the package already had.
RegInsertFresh(reg, name, version, checksum) ==
    [n \in (DOMAIN reg) \cup {name} |->
        IF n = name THEN [v \in {version} |-> checksum] ELSE reg[n]]

\* state.packages.entry(name).or_insert_with(HashMap::new).insert(version, checksum)
RegInsert(reg, name, version, checksum) ==
    LET old  == IF name \in DOMAIN reg THEN reg[name] ELSE NoEntries
        vers == [v \in (DOMAIN old) \cup {version} |->
                    IF v = version THEN checksum ELSE old[v]]
    IN  [n \in (DOMAIN reg) \cup {name} |-> IF n = name THEN vers ELSE reg[n]]

\* The registry edit of remove that keeps a package key with no versions.
RegRemoveKeepKey(reg, name, version) ==
    IF name \notin DOMAIN reg THEN reg
    ELSE [n \in DOMAIN reg |->
            IF n = name THEN [v \in (DOMAIN reg[name]) \ {version} |-> reg[name][v]]
            ELSE reg[n]]

\* remove: vers.remove(version); if vers.is_empty() { packages.remove(name) }
RegRemove(reg, name, version) ==
    IF name \notin DOMAIN reg THEN reg
    ELSE LET vers == [v \in (DOMAIN reg[name]) \ {version} |-> reg[name][v]]
         IN  IF DOMAIN vers = {}
             THEN [n \in (DOMAIN reg) \ {name} |-> reg[n]]
             ELSE [n \in DOMAIN reg |-> IF n = name THEN vers ELSE reg[n]]

\* (name, version) is registered in the file `file`.
Registered(file, name, version) ==
    file.k = "ok" /\ name \in DOMAIN file.reg /\ version \in DOMAIN file.reg[name]

-----------------------------------------------------------------------------
(* Exit codes (main.rs: enum ErrorCode). *)

InvalidArgs == 1

UnknownCommand == 99

InstallFailed == 4

RemoveFailed == 5

VerificationFailed == 6

ResNone == [kind |-> "none", code |-> 0, msg |-> "", cause |-> ""]

ResOk == [kind |-> "ok", code |-> 0, msg |-> "", cause |-> ""]

\* output_error(code, ..): the JSON goes to stderr and the process exits
\* `code`.  msg is the outermost context of the error, cause its source: "io"
\* for a failure of the host (permissions, disk full, ...).
ResErr(code, msg, cause) == [kind |-> "err", code |-> code, msg |-> msg, cause |-> cause]

\* The process died between two steps.
ResCrash == [kind |-> "crash", code |-> 0, msg |-> "", cause |-> ""]

-----------------------------------------------------------------------------
(* The trees and arguments the transactions are run on. *)

PkgNames == {"foo", "bar"}

Versions == {"1.0", "2.0"}

\* A staged package: manifest without install commands.
StagePlain == Dir("info.hk" :> File(<<0>>))

\* A staged package with a payload file beside the manifest.
StageData == Dir("info.hk" :> File(<<0>>) @@ "a" :> File(<<1>>))

\* A staged package whose manifest has install commands and a binary.
StageCmds == Dir("info.hk" :> File(<<1>>) @@ "a" :> File(<<0>>))

\* A staged package in the legacy layout: everything under contents/.
StageNested == Dir("contents" :> Dir("info.hk" :> File(<<0>>)))

\* A staged package whose info.hk has no [metadata].
StageBad == Dir("info.hk" :> File(<<>>))

StageTrees == {StagePlain, StageData, StageCmds, StageNested, StageBad}

\* The tree of an installed package, with a marker file.
TreeOld == Dir("info.hk" :> File(<<1>>) @@ "b" :> File(<<1>>))

ChecksumOld == Sha256Hex(<<1>>)

RegEmpty == NoEntries

RegFoo == "foo" :> ("1.0" :> ChecksumOld)

RegBoth == "foo" :> ("1.0" :> ChecksumOld @@ "2.0" :> ChecksumOld)
               @@ "bar" :> ("1.0" :> ChecksumOld)

\* The checksums a caller hands to install for the staged tree `t`: the
\* digest of the whole tree, the digest of its info.hk, or a wrong one.
ChecksumsFor(t) ==
    {compute_dir_hash(t), Sha256Hex(Child(t, "info.hk").d), DeadBeef}

\* What the install commands, running with <path>.tmp bound read-write at
\* /app, may leave there: nothing new, a built file, or a rewritten info.hk.
PayloadEffects(t) ==
    {t, WithEntry(t, "a", File(<<1>>)), WithEntry(t, "info.hk", File(<<0>>))}

\* rename(2) of the node `src` onto `dst`: a directory replaces nothing or an
\* empty directory (else ENOTEMPTY / ENOTDIR), a file nothing or a file.
RenameOk(src, dst) ==
    \/ ~Exists(dst)
    \/ IsDir(src) /\ IsDir(dst) /\ DOMAIN dst.e = {}
    \/ IsFile(src) /\ IsFile(dst)

NoArgs == [cmd |-> "none", name |-> "", version |-> "", checksum |-> DeadBeef]

NoExec == [exec |-> FALSE, verified |-> FALSE, match |-> FALSE]

\* The backend is not running; the store and the registry are as given.
TxStart(final, state) ==
    /\ finalTree = final
    /\ stateFile = state
    /\ usrBin = IF final = Absent THEN {} ELSE {"foo"}
    /\ tmpTree = Absent
    /\ pc = "idle"
    /\ args = NoArgs
    /\ manifest = NoManifest
    /\ loaded = NoEntries
    /\ sbStatus = "none"
    /\ verified = FALSE
    /\ execSeen = NoExec
    /\ result = ResNone
    /\ pre = [final |-> Absent, tmp |-> Absent, state |-> StAbsent]
    /\ calls = 0

TxInit ==
    \E s \in {<<Absent, StAbsent>>, <<Absent, StOk(RegEmpty)>>,
              <<TreeOld, StOk(RegFoo)>>, <<TreeOld, StOk(RegBoth)>>} :
        TxStart(s[1], s[2])

NoCheck == [cmd |-> -1, mod |-> "none", hashed |-> FALSE, files |-> <<>>, digest |-> DeadBeef]

HashIdle ==
    /\ tree = Absent
    /\ tree0 = Absent
    /\ lastOp = "none"
    /\ vres = NoCheck

\* Manifest::load_info has not been called.
NotLoaded == [called |-> FALSE, m |-> NoManifest, code |-> 0]

ManifestIdle == cfg = None /\ mres = NotLoaded

NoArgv == [cmd |-> "none", n |-> 0]

\* exit: the exit status of the process; stderr: "json" for the object
\* {"err":{"code":..,"message":..}} with `code`, "text" for a plain line,
\* "none" for nothing; routed: the operation main called; payload: the exit
\* code of the exec'd payload (-1: none ran, or it was killed).
NoOut == [exit |-> -1, stderr |-> "none", code |-> -1, routed |-> "none",
          payload |-> -1]

\* main has not been entered.
CliIdle == argv = NoArgv /\ out = NoOut /\ pkgTree = Absent

NoPolicy == [network |-> FALSE, gui |-> FALSE, dev |-> FALSE, filesystem |-> {}]

NoWrite == [path |-> <<>>, res |-> "none"]

\* No sandbox child has been forked.  i: the step of the child's setup that
\* comes next; mounts: mount point -> read-only flag, in the new root;
\* rules: the Landlock rules added; denied: the host refused a step; done: the
\* steps completed; sock, wr: what the payload's socket(AF_INET, ..) and
\* its write to a file returned.
NoChild ==
    [impl |-> "none", mode |-> "none", policy |-> NoPolicy, pc |-> "idle",
     i |-> 0, ns |-> {}, mounts |-> NoEntries, rules |-> {}, restricted |-> FALSE,
     seccomp |-> FALSE, cwd |-> <<"?">>, exec |-> "none", exit |-> -1,
     denied |-> FALSE, done |-> <<>>, sock |-> "none", wr |-> NoWrite,
     host |-> {}, failedAt |-> "none", sig |-> FALSE, msg |-> FALSE,
     spawned |-> FALSE, parent |-> "none", perr |-> "none", diag |-> FALSE]

SandboxIdle == sb = NoChild

Procs == {1, 2}

NoProc == [pc |-> "idle", version |-> "none", loaded |-> NoEntries, fd |-> "none"]

NoConc ==
    [impl |-> "none", file |-> StAbsent, tmp |-> StAbsent,
     p |-> [i \in Procs |-> NoProc], reader |-> "none"]

ConcIdle == conc = NoConc

Init == TxInit /\ HashIdle /\ ManifestIdle /\ CliIdle /\ SandboxIdle /\ ConcIdle

-----------------------------------------------------------------------------
(* The backend process: one invocation at a time (main.rs: main, install,  *)
(* remove, setup_sandbox, update_state).                                   *)

\* The exit code main gives a failure of the running command.
FailCode == IF args.cmd = "install" THEN InstallFailed ELSE RemoveFailed

\* The command returns Err: main calls output_error and the process exits.
Fail(msg, cause) == pc' = "idle" /\ result' = ResErr(FailCode, msg, cause)

Begin(cmd, name, version, checksum, first) ==
    /\ pc = "idle"
    /\ calls < MaxCalls
    /\ pc' = first
    /\ args' = [cmd |-> cmd, name |-> name, version |-> version, checksum |-> checksum]
    /\ pre' = [final |-> finalTree, tmp |-> tmpTree, state |-> stateFile]
    /\ calls' = calls + 1
    /\ result' = ResNone
    /\ manifest' = NoManifest
    /\ loaded' = NoEntries
    /\ sbStatus' = "none"
    /\ verified' = FALSE
    /\ execSeen' = NoExec
    /\ UNCHANGED <<finalTree, tmpTree, stateFile, usrBin, hashVars, extVars>>

\* The caller unpacks a package at <path>.tmp before it invokes install.
Stage ==
    /\ pc = "idle"
    /\ calls < MaxCalls
    /\ \E t \in StageTrees : t # tmpTree /\ tmpTree' = t
    /\ result' = ResNone
    /\ UNCHANGED <<finalTree, stateFile, usrBin, pc, args, manifest, loaded,
                   sbStatus, verified, execSeen, pre, calls, hashVars, extVars>>

\* main: "install" arm, argv complete.
StartInstall ==
    \E name \in PkgNames, version \in Versions, checksum \in ChecksumsFor(tmpTree) :
        Begin("install", name, version, checksum, "i_mkdir")

\* install: fs::create_dir_all(&tmp_path)
InstallMkTmp ==
    /\ pc = "i_mkdir"
    /\ \E fail \in BOOLEAN :
        IF fail \/ IsFile(tmpTree)
        THEN /\ Fail("Failed to create tmp directory", IF fail THEN "io" ELSE "EEXIST")
             /\ UNCHANGED tmpTree
        ELSE /\ tmpTree' = IF Exists(tmpTree) THEN tmpTree ELSE EmptyDir
             /\ pc' = "i_flatten"
             /\ UNCHANGED result
    /\ UNCHANGED <<finalTree, stateFile, usrBin, args, manifest, loaded,
                   sbStatus, verified, execSeen, pre, calls, hashVars, extVars>>

\* The staging tree `t` with the entries `moved` of contents/ renamed one level up.
FlattenMove(t, moved) ==
    LET contents == Child(t, "contents")
        rest     == Dir([n \in (DOMAIN contents.e) \ moved |-> contents.e[n]])
        up       == Dir([n \in ((DOMAIN t.e) \cup moved) |->
                            IF n \in moved THEN contents.e[n] ELSE t.e[n]])
    IN  WithEntry(up, "contents", rest)

\* install: the contents/ flattening loop and remove_dir.  read_dir yields the
\* entries in no specified order; a rename that fails ends the loop.
InstallFlatten ==
    /\ pc = "i_flatten"
    /\ LET contents == Child(tmpTree, "contents")
           movable  == {n \in DOMAIN contents.e :
                           RenameOk(contents.e[n], Child(tmpTree, n))}
       IN  IF ~Exists(contents)
           THEN pc' = "i_load" /\ UNCHANGED <<tmpTree, result>>
           ELSE IF IsFile(contents)
           THEN Fail("read_dir", "ENOTDIR") /\ UNCHANGED tmpTree
           ELSE \E moved \in SUBSET movable, fail \in BOOLEAN :
                   IF moved = DOMAIN contents.e /\ ~fail
                   THEN /\ tmpTree' = WithoutEntry(FlattenMove(tmpTree, moved), "contents")
                        /\ pc' = "i_load"
                        /\ UNCHANGED result
                   ELSE /\ fail \/ movable # DOMAIN contents.e
                        /\ tmpTree' = FlattenMove(tmpTree, moved)
                        /\ Fail(IF moved = DOMAIN contents.e
                                THEN "Remove contents dir failed" ELSE "Move failed",
                                IF fail THEN "io" ELSE "ENOTEMPTY")
    /\ UNCHANGED <<finalTree, stateFile, usrBin, args, manifest, loaded,
                   sbStatus, verified, execSeen, pre, calls, hashVars, extVars>>

\* install: let manifest = Manifest::load_info(&tmp_path)?
InstallLoadInfo ==
    /\ pc = "i_load"
    /\ manifest' = load_info(tmpTree)
    /\ IF manifest'.ok THEN pc' = "i_sandbox" /\ UNCHANGED result
       ELSE Fail("load_info", "manifest")
    /\ UNCHANGED <<finalTree, tmpTree, stateFile, usrBin, args, loaded,
                   sbStatus, verified, execSeen, pre, calls, hashVars, extVars>>

\* What fork and the child can come to: fork fails; the child's setup fails
\* (its `?` returns into main, which exits InstallFailed) or it is killed;
\* or it reaches execve and the shell exits 0, exits non-zero or is killed.
SandboxOutcomes ==
    {[exec |-> FALSE, status |-> "forkfail"],
     [exec |-> FALSE, status |-> "exitN"],
     [exec |-> FALSE, status |-> "signal"],
     [exec |-> TRUE,  status |-> "exit0"],
     [exec |-> TRUE,  status |-> "exitN"],
     [exec |-> TRUE,  status |-> "signal"]}

\* The parent arm that lets a child that did not exit normally pass.
SandboxOkLax(status) == status \in {"exit0", "signal"}

\* setup_sandbox, parent arm: Ok only for WaitStatus::Exited(_, 0).
SandboxOk(status) == status = "exit0"

\* install: setup_sandbox(&tmp_path, &manifest, true, None, vec![])
InstallSandbox ==
    /\ pc = "i_sandbox"
    /\ \E o \in SandboxOutcomes :
        /\ sbStatus' = o.status
        /\ IF o.exec
           THEN /\ execSeen' = [exec     |-> TRUE,
                                verified |-> verified,
                                match    |-> verify(tmpTree, args.checksum) = "ok"]
                /\ IF manifest.install_commands = {}
                   THEN UNCHANGED tmpTree
                   ELSE tmpTree' \in PayloadEffects(tmpTree)
           ELSE UNCHANGED <<execSeen, tmpTree>>
        /\ IF SandboxOk(o.status) THEN pc' = "i_verify" /\ UNCHANGED result
           ELSE Fail("Sandbox setup failed", o.status)
    /\ UNCHANGED <<finalTree, stateFile, usrBin, args, manifest, loaded,
                   verified, pre, calls, hashVars, extVars>>

\* install: verify(&tmp_path, checksum)?
InstallVerify ==
    /\ pc = "i_verify"
    /\ IF verify(tmpTree, args.checksum) = "ok"
       THEN verified' = TRUE /\ pc' = "i_rename" /\ UNCHANGED result
       ELSE Fail(verify(tmpTree, args.checksum), "verify") /\ UNCHANGED verified
    /\ UNCHANGED <<finalTree, tmpTree, stateFile, usrBin, args, manifest, loaded,
                   sbStatus, execSeen, pre, calls, hashVars, extVars>>

\* install: fs::rename(&tmp_path, path)
InstallRename ==
    /\ pc = "i_rename"
    /\ \E fail \in BOOLEAN :
        IF ~fail /\ RenameOk(tmpTree, finalTree)
        THEN /\ finalTree' = tmpTree
             /\ tmpTree' = Absent
             /\ pc' = "i_update"
             /\ UNCHANGED result
        ELSE /\ Fail("Rename failed", IF fail THEN "io" ELSE "ENOTEMPTY")
             /\ UNCHANGED <<finalTree, tmpTree>>
    /\ UNCHANGED <<stateFile, usrBin, args, manifest, loaded,
                   sbStatus, verified, execSeen, pre, calls, hashVars, extVars>>

\* update_state: load_state()? and the entry insert.
UpdateStateLoad ==
    /\ pc = "i_update"
    /\ \E fail \in BOOLEAN :
        LET st == load_state(stateFile)
        IN  IF fail \/ ~st.ok
            THEN Fail("load_state", IF fail THEN "io" ELSE "parse") /\ UNCHANGED loaded
            ELSE /\ loaded' = RegInsert(st.reg, args.name, args.version, args.checksum)
                 /\ pc' = "save_open"
                 /\ UNCHANGED result
    /\ UNCHANGED <<finalTree, tmpTree, stateFile, usrBin, args, manifest,
                   sbStatus, verified, execSeen, pre, calls, hashVars, extVars>>

\* save_state, fs::write(STATE_PATH, data): the file is opened with O_TRUNC.
SaveStateOpen ==
    /\ pc = "save_open"
    /\ \E fail \in BOOLEAN :
        IF fail
        THEN Fail("save_state", "io") /\ UNCHANGED stateFile
        ELSE stateFile' = StPartial /\ pc' = "save_write" /\ UNCHANGED result
    /\ UNCHANGED <<finalTree, tmpTree, usrBin, args, manifest, loaded,
                   sbStatus, verified, execSeen, pre, calls, hashVars, extVars>>

\* save_state, fs::write(STATE_PATH, data): write_all of the serialized state;
\* the command then prints its success JSON and returns Ok.
SaveStateWrite ==
    /\ pc = "save_write"
    /\ \E fail \in BOOLEAN :
        IF fail
        THEN Fail("save_state", "io") /\ UNCHANGED stateFile
        ELSE stateFile' = StOk(loaded) /\ pc' = "idle" /\ result' = ResOk
    /\ UNCHANGED <<finalTree, tmpTree, usrBin, args, manifest, loaded,
                   sbStatus, verified, execSeen, pre, calls, hashVars, extVars>>

\* main: "remove" arm, argv complete.
StartRemove ==
    \E name \in PkgNames, version \in Versions :
        Begin("remove", name, version, DeadBeef, "r_load")

\* remove going on to its next step whatever load_info returned.
RemoveLoadInfoLax ==
    /\ pc = "r_load"
    /\ manifest' = load_info(finalTree)
    /\ pc' = "r_unlink"
    /\ UNCHANGED <<finalTree, tmpTree, stateFile, usrBin, args, loaded, result,
                   sbStatus, verified, execSeen, pre, calls, hashVars, extVars>>

\* remove: let manifest = Manifest::load_info(path)?
RemoveLoadInfo ==
    /\ pc = "r_load"
    /\ manifest' = load_info(finalTree)
    /\ IF manifest'.ok THEN pc' = "r_unlink" /\ UNCHANGED result
       ELSE Fail("load_info", "manifest")
    /\ UNCHANGED <<finalTree, tmpTree, stateFile, usrBin, args, loaded,
                   sbStatus, verified, execSeen, pre, calls, hashVars, extVars>>

\* remove: for bin in &manifest.bins { let _ = fs::remove_file(..) }
RemoveUnlinkBins ==
    /\ pc = "r_unlink"
    /\ usrBin' = usrBin \ manifest.bins
    /\ pc' = "r_rmtree"
    /\ UNCHANGED <<finalTree, tmpTree, stateFile, args, manifest, loaded,
                   sbStatus, verified, execSeen, result, pre, calls, hashVars, extVars>>

\* remove: fs::remove_dir_all(path).  A failure leaves what was not yet
\* unlinked.
RemoveTree ==
    /\ pc = "r_rmtree"
    /\ \E gone \in SUBSET DOMAIN finalTree.e, fail \in BOOLEAN :
        IF gone = DOMAIN finalTree.e /\ ~fail
        THEN finalTree' = Absent /\ pc' = "r_state" /\ UNCHANGED result
        ELSE /\ finalTree' = Dir([n \in (DOMAIN finalTree.e) \ gone |-> finalTree.e[n]])
             /\ Fail("Delete tree failed", "io")
    /\ UNCHANGED <<tmpTree, stateFile, usrBin, args, manifest, loaded,
                   sbStatus, verified, execSeen, pre, calls, hashVars, extVars>>

\* remove: load_state()? and the deletion of (name, version).
RemoveLoadState ==
    /\ pc = "r_state"
    /\ \E fail \in BOOLEAN :
        LET st == load_state(stateFile)
        IN  IF fail \/ ~st.ok
            THEN Fail("load_state", IF fail THEN "io" ELSE "parse") /\ UNCHANGED loaded
            ELSE /\ loaded' = RegRemove(st.reg, args.name, args.version)
                 /\ pc' = "save_open"
                 /\ UNCHANGED result
    /\ UNCHANGED <<finalTree, tmpTree, stateFile, usrBin, args, manifest,
                   sbStatus, verified, execSeen, pre, calls, hashVars, extVars>>

\* The process dies between two of its steps (kill, power loss).
Crash ==
    /\ pc # "idle"
    /\ pc' = "idle"
    /\ result' = ResCrash
    /\ UNCHANGED <<finalTree, tmpTree, stateFile, usrBin, args, manifest, loaded,
                   sbStatus, verified, execSeen, pre, calls, hashVars, extVars>>

Next ==
    \/ Stage
    \/ StartInstall
    \/ InstallMkTmp
    \/ InstallFlatten
    \/ InstallLoadInfo
    \/ InstallSandbox
    \/ InstallVerify
    \/ InstallRename
    \/ UpdateStateLoad
    \/ SaveStateOpen
    \/ SaveStateWrite
    \/ StartRemove
    \/ RemoveLoadInfo
    \/ RemoveUnlinkBins
    \/ RemoveTree
    \/ RemoveLoadState
    \/ Crash

Spec == Init /\ [][Next]_vars

\* An installed tree whose info.hk no longer parses to a manifest, and one
\* whose info.hk is gone (a payload has /app, the tree, writable).
TreeDamaged == Dir("info.hk" :> File(<<>>) @@ "b" :> File(<<1>>))

TreeNoManifest == Dir("b" :> File(<<1>>))

\* The stores of DamagedSpec: the registered foo 1.0 has such a tree, or a
\* sound one, or nothing is installed.
DamagedInit ==
    /\ \/ \E t \in {TreeDamaged, TreeNoManifest, TreeOld} : TxStart(t, StOk(RegFoo))
       \/ TxStart(Absent, StAbsent)
    /\ HashIdle /\ ManifestIdle /\ CliIdle /\ SandboxIdle /\ ConcIdle

DamagedSpec == DamagedInit /\ [][Next]_vars

-----------------------------------------------------------------------------
(* The hasher and the two verify functions applied to package trees.       *)

FileData == {<<>>} \cup {<<b>> : b \in 0..MaxByte}

FileNodes == {File(d) : d \in FileData}

SubDirs == {Dir(f) : f \in UNION {[S -> FileNodes] : S \in SUBSET {"a", "c"}}}

\* Package trees: info.hk at the root, beside it a file or a directory "a"
\* and a file "b".
HashTrees ==
    {Dir(f @@ g @@ "info.hk" :> i) :
        f \in UNION {[S -> FileNodes \cup SubDirs] : S \in SUBSET {"a"}},
        g \in UNION {[S -> FileNodes] : S \in SUBSET {"b"}},
        i \in FileNodes}

\* The paths of the regular files of a tree of depth two.
AllFilePaths(t) ==
    {<<n>> : n \in {x \in DOMAIN t.e : IsFile(t.e[x])}}
        \cup UNION {{<<n, m>> : m \in {x \in DOMAIN t.e[n].e : IsFile(t.e[n].e[x])}} :
                        n \in {x \in DOMAIN t.e : IsDir(t.e[x])}}

HashInit ==
    /\ tree \in HashTrees
    /\ tree0 = tree
    /\ lastOp = "init"
    /\ vres = NoCheck
    /\ TxStart(Absent, StAbsent)
    /\ ManifestIdle /\ CliIdle /\ SandboxIdle /\ ConcIdle

\* One byte of one regular file of the tree is changed.
FlipByte ==
    /\ lastOp = "init"
    /\ \E p \in AllFilePaths(tree) :
         LET data == NodeAt(tree, p).d
         IN  \E i \in 1..Len(data), b \in 0..MaxByte :
                /\ b # data[i]
                /\ tree' = ReplaceAt(tree, p, File([data EXCEPT ![i] = b]))
    /\ lastOp' = "flip"
    /\ vres' = NoCheck
    /\ UNCHANGED <<tree0, txVars, extVars>>

\* A directory of the tree is renamed; names and contents of files stay.
RenameDir ==
    /\ lastOp = "init"
    /\ \E n \in {x \in DOMAIN tree.e : IsDir(tree.e[x])},
          m \in {"ab", "c"} \ DOMAIN tree.e :
            tree' = WithEntry(WithoutEntry(tree, n), m, tree.e[n])
    /\ lastOp' = "rename"
    /\ vres' = NoCheck
    /\ UNCHANGED <<tree0, txVars, extVars>>

\* main: "verify" arm, with the checksum taken of the tree before any change.
VerifyCmd ==
    /\ vres' = [vres EXCEPT !.cmd =
                   IF verify(tree, compute_dir_hash(tree0)) = "ok"
                   THEN 0 ELSE VerificationFailed]
    /\ UNCHANGED <<tree, tree0, lastOp, txVars, extVars>>

\* verify.rs: verify, with the same checksum.
VerifyMod ==
    /\ vres' = [vres EXCEPT !.mod = verify_mod(tree, compute_dir_hash(tree0))]
    /\ UNCHANGED <<tree, tree0, lastOp, txVars, extVars>>

\* verify.rs: compute_dir_hash of the tree as it is now.
HashDir ==
    /\ vres' = [vres EXCEPT !.hashed = TRUE,
                            !.files  = HashedFiles(tree),
                            !.digest = compute_dir_hash(tree)]
    /\ UNCHANGED <<tree, tree0, lastOp, txVars, extVars>>

HashNext ==
    \/ FlipByte
    \/ RenameDir
    \/ VerifyCmd
    \/ VerifyMod
    \/ HashDir

HashSpec == HashInit /\ [][HashNext]_vars

-----------------------------------------------------------------------------
(* Properties of install and remove (Spec). *)

\* The last invocation was `cmd` and the process has ended with `kind`.
Returned(cmd, kind) == pc = "idle" /\ args.cmd = cmd /\ result.kind = kind

\* The registry a reader of the state file gets (Err when it does not parse).
Registry(file) == load_state(file)

\* The registry at the start of the invocation.
PreReg == Registry(pre.state).reg

\* The registry the running command is to leave behind.
PostReg ==
    IF args.cmd = "install"
    THEN RegInsert(PreReg, args.name, args.version, args.checksum)
    ELSE RegRemove(PreReg, args.name, args.version)

\* install has put the staged tree at final_path.
NewTreeInPlace == args.cmd = "install" /\ finalTree # pre.final

\* The manifest of the tree staged for this invocation.
StagedManifest == load_info(pre.tmp)

\* C1 (as claimed): when install fails, final_path is as it was before the
\* call and the registry equals the registry before the call.
C1_RollbackOnFailure ==
    Returned("install", "err") =>
        /\ finalTree = pre.final
        /\ Registry(stateFile) = Registry(pre.state)

\* C2 (as claimed): wherever an install stops (return or crash), either the
\* new tree is at final_path and the registry maps (name, version) to the
\* checksum, or final_path and the registry are as before the call.
C2_TwoOutcomes ==
    (pc = "idle" /\ args.cmd = "install") =>
        \/ /\ NewTreeInPlace
           /\ Registered(stateFile, args.name, args.version)
           /\ stateFile.reg[args.name][args.version] = args.checksum
        \/ /\ finalTree = pre.final
           /\ Registry(stateFile) = Registry(pre.state)

\* C3 (as claimed): at every point of an install or remove (a crash may
\* strike there) the state file is complete: it holds the registry as it was
\* before the call or the registry as it is after the call.
C3_StateFileAtomic ==
    args.cmd \in {"install", "remove"} =>
        \/ stateFile = pre.state
        \/ stateFile = StOk(PostReg)

\* C4 (as claimed): the sandbox child exec's the install commands only after
\* verify has succeeded, so never on a tree that does not match the checksum.
C4_VerifyBeforeSandbox ==
    execSeen.exec => execSeen.verified /\ execSeen.match

\* C5: during install, the staging tree is renamed and the state file is
\* written only after the sandbox child exited with code 0; after a non-zero
\* exit, a signal or a failed fork neither happens.
C5_StateAfterSandboxExit0 ==
    args.cmd = "install" =>
        /\ (pc \in {"i_verify", "i_rename", "i_update", "save_open", "save_write"}
               => sbStatus = "exit0")
        /\ (finalTree # pre.final \/ stateFile # pre.state) => sbStatus = "exit0"

\* C5 witness: the install commands ran, the child was killed by a signal,
\* and install returned an error with store and registry untouched.
C5_Witness ==
    /\ Returned("install", "err")
    /\ sbStatus = "signal"
    /\ execSeen.exec
    /\ finalTree = pre.final
    /\ stateFile = pre.state

\* The input of the happy path: a staged tree with a valid manifest, no
\* install commands, a closed sandbox policy, the checksum of the staged
\* tree, nothing at final_path and a readable registry.
HappyInput ==
    /\ args.cmd = "install"
    /\ StagedManifest.ok
    /\ StagedManifest.install_commands = {}
    /\ ~StagedManifest.network /\ ~StagedManifest.gui /\ ~StagedManifest.dev
    /\ args.checksum = compute_dir_hash(pre.tmp)
    /\ ~Exists(pre.final)
    /\ Registry(pre.state).ok

\* C6 (as claimed): on the happy-path input install fails only when the host
\* fails it (I/O error, sandbox refused), and when it succeeds final_path
\* holds the staged tree with its info.hk, the staging path is gone and the
\* registry maps name -> version -> checksum.
C6_HappyPath ==
    HappyInput =>
        /\ Returned("install", "err") =>
               result.cause \in {"io", "forkfail", "exitN", "signal"}
        /\ Returned("install", "ok") =>
               /\ finalTree = pre.tmp
               /\ IsFile(Child(finalTree, "info.hk"))
               /\ ~Exists(tmpTree)
               /\ Registered(stateFile, args.name, args.version)
               /\ stateFile.reg[args.name][args.version] = args.checksum

\* C7 (as claimed): over an existing non-empty tree at final_path, an install
\* whose staged tree passed the sandbox and verify ends with the new tree at
\* final_path unless the host fails it.
C7_InstallOverExisting ==
    (/\ args.cmd = "install"
     /\ IsDir(pre.final) /\ DOMAIN pre.final.e # {}
     /\ verified
     /\ pc = "idle"
     /\ result.kind \in {"ok", "err"}) =>
        \/ result.kind = "ok" /\ NewTreeInPlace
        \/ result.cause = "io"

\* C8: the registry never holds a package key with an empty version map;
\* after a successful remove the tree is absent, (name, version) is not
\* registered, and every other (package, version) entry is as before.
C8_RemoveFlushesEntry ==
    /\ stateFile.k = "ok" =>
           \A n \in DOMAIN stateFile.reg : DOMAIN stateFile.reg[n] # {}
    /\ Returned("remove", "ok") =>
           /\ ~Exists(finalTree)
           /\ stateFile.k = "ok"
           /\ ~Registered(stateFile, args.name, args.version)
           /\ \A n \in PkgNames, v \in Versions :
                  (n # args.name \/ v # args.version) =>
                      /\ Registered(stateFile, n, v) <=> Registered(pre.state, n, v)
                      /\ Registered(stateFile, n, v) =>
                             stateFile.reg[n][v] = pre.state.reg[n][v]

\* C8 witness: the last version of a package was removed and its key went
\* with it, while another package stayed registered.
C8_Witness ==
    /\ Returned("remove", "ok")
    /\ Registered(pre.state, args.name, args.version)
    /\ args.name \notin DOMAIN stateFile.reg
    /\ DOMAIN stateFile.reg # {}

\* C20 (as claimed): when the state file exists but cannot be parsed, the
\* operation that loads it (update_state in install, remove) fails with
\* VerificationFailed (6) and leaves the file as it was.
C20_UnparseableStateIsVerificationError ==
    (/\ pc = "idle"
     /\ pre.state = StPartial
     /\ result.kind = "err"
     /\ result.msg = "load_state"
     /\ result.cause = "parse") =>
        /\ result.code = VerificationFailed
        /\ stateFile = pre.state

\* C21: update_state is load-modify-save with exact effect: after a
\* successful install the saved registry is the registry loaded (empty when
\* the file was missing) with packages[name][version] = checksum, the package
\* entry created if absent, and every other (package, version) entry as it
\* was.
C21_UpdateExactEffect ==
    Returned("install", "ok") =>
        /\ stateFile.k = "ok"
        /\ DOMAIN stateFile.reg = (DOMAIN PreReg) \cup {args.name}
        /\ stateFile.reg[args.name][args.version] = args.checksum
        /\ \A n \in DOMAIN stateFile.reg :
               /\ DOMAIN stateFile.reg[n] =
                      (IF n \in DOMAIN PreReg THEN DOMAIN PreReg[n] ELSE {})
                          \cup (IF n = args.name THEN {args.version} ELSE {})
               /\ \A v \in DOMAIN stateFile.reg[n] :
                      (n # args.name \/ v # args.version)
                          => stateFile.reg[n][v] = PreReg[n][v]

\* C21 witness: an install succeeded for a package that had another version
\* registered, beside another package.
C21_Witness ==
    /\ Returned("install", "ok")
    /\ args.name \in DOMAIN PreReg
    /\ (DOMAIN PreReg[args.name]) \ {args.version} # {}
    /\ (DOMAIN PreReg) \ {args.name} # {}

\* The registry has an entry for the package exactly when a tree is at its
\* install path.
Consistent(treeAtPath, file, name) ==
    /\ file.k # "partial"
    /\ Exists(treeAtPath) <=> name \in DOMAIN Registry(file).reg

\* C29 (as claimed): an install or remove that fails at any of its steps,
\* started with the registry and the store agreeing on the package, leaves
\* them agreeing.
C29_RegistryMatchesStore ==
    (/\ pc = "idle"
     /\ result.kind = "err"
     /\ Consistent(pre.final, pre.state, args.name)) =>
        Consistent(finalTree, stateFile, args.name)

\* C30: when the manifest at path cannot be loaded, the only thing remove
\* does is fail with RemoveFailed: no /usr/bin entry is unlinked, the tree
\* is not deleted and the state file is not touched, so (name, version)
\* stays registered.
C30_RemoveBadManifestMutatesNothing ==
    [][(pc = "r_load" /\ ~load_info(finalTree).ok) =>
          /\ pc' = "idle"
          /\ result'.kind \in {"err", "crash"}
          /\ result'.kind = "err" => result'.code = RemoveFailed
          /\ UNCHANGED <<finalTree, stateFile, usrBin>>]_vars

\* C30 witness: remove of a registered package failed on the manifest of a
\* tree that is there, with a /usr/bin entry in place.
C30_Witness ==
    /\ Returned("remove", "err")
    /\ result.code = RemoveFailed
    /\ result.msg = "load_info"
    /\ Exists(finalTree)
    /\ usrBin # {}
    /\ Registered(pre.state, args.name, args.version)
    /\ Registered(stateFile, args.name, args.version)

-----------------------------------------------------------------------------
(* Properties of verify and compute_dir_hash (HashSpec). *)

\* The filename component of a path.
FileName(p) == p[Len(p)]

\* Order on paths: component by component, each compared as a filename.
PathLt(p, q) ==
    \E i \in 1..(MinOf(Len(p), Len(q)) + 1) :
        /\ \A j \in 1..(i - 1) : p[j] = q[j]
        /\ \/ (i = Len(p) + 1 /\ i <= Len(q))
           \/ (i <= Len(p) /\ i <= Len(q) /\ NameLt(p[i], q[i]))

\* The number of names of S that sort before n.
Rank(n, S) == Cardinality({x \in S : NameLt(x, n)})

\* The renamed directory of `t` stands where it stood in `t0` among its siblings.
SameRank(t0, t) ==
    \A n \in (DOMAIN t0.e) \ DOMAIN t.e, m \in (DOMAIN t.e) \ DOMAIN t0.e :
        Rank(n, DOMAIN t0.e) = Rank(m, DOMAIN t.e)

\* Two files are hashed against the order of their filenames.
FilenameOrderBroken(files) ==
    \E i, j \in 1..Len(files) : i < j /\ NameLt(FileName(files[j]), FileName(files[i]))

\* C9 (as claimed): the verify command, given the hash of the whole tree as
\* it was, exits 0 while the tree is unchanged and exits VerificationFailed
\* once a single byte of any regular file has changed.
C9_VerifyCoversWholeTree ==
    vres.cmd # -1 =>
        /\ lastOp = "init" => vres.cmd = 0
        /\ lastOp = "flip" => vres.cmd = VerificationFailed

-----------------------------------------------------------------------------
(* The command line (CliSpec): main's dispatch, the verify arm and the run  *)
(* arm.  An install or remove with its arguments complete enters the        *)
(* operation (StartInstall, StartRemove), whose steps are those of Spec.    *)

\* Command words main is given; the last stands for any other word.
CommandWords ==
    {"install", "remove", "verify", "run",
     "verify-signature", "list-installed", "sandbox-test", "frobnicate"}

\* Largest number of positional arguments after the command word.
MaxArgs == 4

\* Exit codes a payload may end with.
PayloadCodes == {0, 1, 3}

\* output_error(code, msg): the JSON object on stderr, then exit(code).
output_error(code) ==
    [exit |-> code, stderr |-> "json", code |-> code, routed |-> "none",
     payload |-> -1]

\* The arm returns normally and main falls off its end: exit status 0.
Returns(op) ==
    [exit |-> 0, stderr |-> "none", code |-> -1, routed |-> op, payload |-> -1]

\* run arm: eprintln!("Run failed: {}", e); exit(1), or the bare exit(1).
RunExit1(op, text, payload) ==
    [exit |-> 1, stderr |-> IF text THEN "text" ELSE "none", code |-> -1,
     routed |-> op, payload |-> payload]

CliInit ==
    /\ TxInit
    /\ HashIdle /\ ManifestIdle /\ SandboxIdle /\ ConcIdle
    /\ argv = NoArgv
    /\ out = NoOut
    /\ pkgTree \in {Absent, StagePlain, StageCmds}

\* One invocation that main handles itself: argv' and out' are given.
Invoke(cmd, n, o) ==
    /\ pc = "idle"
    /\ calls < MaxCalls
    /\ calls' = calls + 1
    /\ argv' = [cmd |-> cmd, n |-> n]
    /\ out' = o

CliFrame ==
    UNCHANGED <<finalTree, tmpTree, stateFile, usrBin, pc, args, manifest, loaded,
                sbStatus, verified, execSeen, result, pre, hashVars, cfg, mres, sb, conc>>

\* main: args.is_empty()
MainNoArgs ==
    /\ Invoke("", 0, output_error(InvalidArgs))
    /\ UNCHANGED pkgTree /\ CliFrame

\* main: "install" with args.len() < 5, "remove" with args.len() < 4,
\* "verify" with args.len() < 3 (args includes the command word).
MainUsage ==
    /\ \E cmd \in {"install", "remove", "verify"}, n \in 0..MaxArgs :
        /\ n < (CASE cmd = "install" -> 4 [] cmd = "remove" -> 3 [] OTHER -> 2)
        /\ Invoke(cmd, n, output_error(InvalidArgs))
    /\ UNCHANGED pkgTree /\ CliFrame

\* main: "verify" arm with its arguments: verify(path, checksum), here on
\* the tree of the store.
MainVerify ==
    /\ \E n \in 2..MaxArgs, checksum \in ChecksumsFor(pkgTree) :
        Invoke("verify", n,
               IF verify(pkgTree, checksum) = "ok"
               THEN Returns("verify")
               ELSE [output_error(VerificationFailed) EXCEPT !.routed = "verify"])
    /\ UNCHANGED pkgTree /\ CliFrame

\* main: "run" with args.len() < 3: exit(1), nothing written.
MainRunUsage ==
    /\ \E n \in 0..1 : Invoke("run", n, RunExit1("none", FALSE, -1))
    /\ UNCHANGED pkgTree /\ CliFrame

\* main: "run" arm, run(&args[1..]): load_info of STORE_PATH/<name>/current,
\* then setup_sandbox in run mode.  The child either fails during setup
\* (its own main prints "Run failed" and exits 1), or exec's /app/<bin>,
\* which has the tree bound read-write at /app and ends with a code or by a
\* signal; the parent arm passes only Exited(_, 0).
MainRun ==
    \E n \in 2..MaxArgs :
        IF ~load_info(pkgTree).ok
        THEN /\ Invoke("run", n, RunExit1("run", TRUE, -1))
             /\ UNCHANGED pkgTree /\ CliFrame
        ELSE \/ \E status \in {"forkfail", "exitN", "signal"} :
                  /\ Invoke("run", n, RunExit1("run", TRUE, -1))
                  /\ UNCHANGED pkgTree /\ CliFrame
             \/ \E c \in PayloadCodes \cup {-1} :
                  LET status == IF c = -1 THEN "signal"
                                ELSE IF c = 0 THEN "exit0" ELSE "exitN"
                  IN  /\ Invoke("run", n,
                                IF SandboxOk(status)
                                THEN [Returns("run") EXCEPT !.payload = c]
                                ELSE RunExit1("run", TRUE, c))
                      /\ pkgTree' \in PayloadEffects(pkgTree)
                      /\ CliFrame

\* main: `_ => output_error(ErrorCode::UnknownCommand, ..)`
MainUnknown ==
    /\ \E cmd \in CommandWords \ {"install", "remove", "verify", "run"},
          n \in 0..MaxArgs :
            Invoke(cmd, n, output_error(UnknownCommand))
    /\ UNCHANGED pkgTree /\ CliFrame

CliNext ==
    \/ MainNoArgs
    \/ MainUsage
    \/ StartInstall
    \/ StartRemove
    \/ MainVerify
    \/ MainRunUsage
    \/ MainRun
    \/ MainUnknown

CliSpec == CliInit /\ [][CliNext]_vars

-----------------------------------------------------------------------------
(* The sandbox child (SandboxSpec): the child arm of setup_sandbox in        *)
(* main.rs, and child_setup of sandbox.rs, one step after the other, then   *)
(* the payload's attempts inside the sandbox.  Paths are sequences of       *)
(* components below the new root.                                           *)

IsPrefix(p, q) == Len(p) <= Len(q) /\ SubSeq(q, 1, Len(p)) = p

\* let ro_paths = vec!["/usr", "/lib", "/lib64", "/bin", "/etc"]
RoPaths == {<<"usr">>, <<"lib">>, <<"lib64">>, <<"bin">>, <<"etc">>}

AppPath == <<"app">>

\* The sandbox.filesystem entries of the manifests considered.
FsPaths == {<<"usr">>, <<"usr", "share">>, <<"home">>}

\* Files the payload tries to write.
WriteTargets ==
    {<<"usr", "bin", "ls">>, <<"usr", "share", "doc">>, <<"etc", "passwd">>,
     <<"app", "a">>, <<"home", "x">>}

\* AccessFs::Execute | AccessFs::ReadFile | AccessFs::ReadDir
RoAccess == {"execute", "read_file", "read_dir"}

\* AccessFs::ReadFile | AccessFs::ReadDir
ProcSysAccess == {"read_file", "read_dir"}

\* The rights of AccessFs::from_all(ABI::V1) that change the file system.
WriteAccess ==
    {"write_file", "remove_dir", "remove_file", "make_char", "make_dir",
     "make_reg", "make_sock", "make_fifo", "make_block", "make_sym"}

\* AccessFs::from_all(ABI::V1)
AllAccess == RoAccess \cup WriteAccess

\* setup_seccomp: allowed_syscalls; every other call gets Errno(EPERM).
SeccompAllowed ==
    {"read", "write", "open", "openat", "close", "exit", "mmap", "brk",
     "exit_group", "futex", "fstat", "newfstatat"}

\* A kernel that applies no filter.
SyscallUnfiltered(c, name) == "ok"

\* The kernel's answer to a system call of a process in state `c`.
Syscall(c, name) ==
    IF c.seccomp /\ name \notin SeccompAllowed THEN "EPERM" ELSE "ok"

\* socket(AF_INET, ..): a network namespace of its own (CLONE_NEWNET) has no
\* interface but the loopback, down; creating a socket in it is not refused.
\* Only a seccomp filter refuses the call.
SocketInet(c) == Syscall(c, "socket")

\* The rights Landlock grants on `path`: those of every rule the path lies
\* beneath, together.
Granted(c, path) ==
    UNION {r.access : r \in {x \in c.rules : IsPrefix(x.path, path)}}

\* The mount that `path` lies on: the longest mount point above it.
MountOf(c, path) ==
    CHOOSE m \in DOMAIN c.mounts :
        /\ IsPrefix(m, path)
        /\ \A n \in DOMAIN c.mounts : IsPrefix(n, path) => Len(n) <= Len(m)

\* open(path, O_WRONLY) by the payload.
WriteFile(c, path) ==
    IF Syscall(c, "openat") # "ok" THEN "EPERM"
    ELSE IF c.restricted /\ "write_file" \notin Granted(c, path) THEN "EACCES"
    ELSE IF c.mounts[MountOf(c, path)] THEN "EROFS"
    ELSE "ok"

\* The steps of the child, in the order of the code.
ChildSteps(impl) ==
    IF impl = "main"
    THEN <<"unshare", "mount_private", "user_mapping", "new_root", "ro_binds",
           "app_bind", "tmp_mount", "gui_mount", "dev_mount", "fs_binds",
           "proc_sys", "pivot_root", "chdir_app", "landlock", "exec">>
    ELSE <<"unshare", "sethostname", "mount_private", "user_mapping", "new_root",
           "ro_binds", "app_bind", "tmp_mount", "gui_mount", "dev_mount",
           "fs_binds", "proc_sys", "pivot_root", "no_new_privs", "rlimits",
           "landlock", "seccomp", "chdir_app", "exec">>

\* The step the child is at.
Cur == IF sb.pc = "setup" THEN ChildSteps(sb.impl)[sb.i] ELSE "none"

SandboxFrame == UNCHANGED <<txVars, hashVars, cfg, mres, argv, out, pkgTree, conc>>

Policies ==
    [network : BOOLEAN, gui : BOOLEAN, dev : BOOLEAN, filesystem : SUBSET FsPaths]

\* The paths of FsPaths that exist on the host: /usr always, the others or not.
HostSets == {{<<"usr">>} \cup S : S \in SUBSET (FsPaths \ {<<"usr">>})}

SandboxInit ==
    /\ sb = NoChild
    /\ TxStart(Absent, StAbsent)
    /\ HashIdle /\ ManifestIdle /\ CliIdle /\ ConcIdle

\* fork(): the child arm starts.  main.rs has the modes install and run,
\* sandbox.rs also the test mode.
SbFork ==
    /\ sb.pc = "idle"
    /\ \E impl \in {"main", "module"}, mode \in {"install", "run", "test"},
          policy \in Policies, host \in HostSets :
        /\ mode = "test" => impl = "module"
        /\ sb' = [NoChild EXCEPT !.impl = impl, !.mode = mode, !.policy = policy,
                                 !.host = host, !.pc = "setup", !.i = 1,
                                 !.parent = "waitpid"]
    /\ SandboxFrame

\* The step `name` is done and left the child as `c`.
StepDone(name, c) ==
    /\ Cur = name
    /\ sb' = [c EXCEPT !.i = sb.i + 1, !.done = Append(sb.done, name)]
    /\ SandboxFrame

\* The exit status of a child whose setup returned Err: in main.rs the
\* error returns into the child's own main (output_error for install, exit(1)
\* for run), in sandbox.rs the child calls exit(1).
FailExit(c) == IF c.impl = "main" /\ c.mode = "install" THEN InstallFailed ELSE 1

\* sandbox.rs: the child writes format!("{:?}", e) to the write end of the
\* pipe before exit(1); main.rs has no pipe.
WritesDiagnostic(c) == c.impl = "module" /\ Syscall(c, "write") = "ok"

ChildFails(byHost) ==
    /\ sb' = [sb EXCEPT !.pc = "exited", !.exit = FailExit(sb),
                        !.denied = sb.denied \/ byHost,
                        !.failedAt = Cur, !.msg = WritesDiagnostic(sb)]
    /\ SandboxFrame

\* mount(.., target, ..) with or without MS_RDONLY.
Mounted(c, targets, ro) ==
    [c EXCEPT !.mounts = [t \in targets |-> ro] @@ c.mounts]

\* unshare with the two optional flags exchanged.
SbUnshareSwapped ==
    StepDone("unshare",
             [sb EXCEPT !.ns = {"user", "mnt", "uts", "pid", "cgroup"}
                                 \cup (IF sb.policy.gui THEN {} ELSE {"net"})
                                 \cup (IF sb.policy.network THEN {} ELSE {"ipc"})])

\* unshare(flags)
SbUnshare ==
    StepDone("unshare",
             [sb EXCEPT !.ns = {"user", "mnt", "uts", "pid", "cgroup"}
                                 \cup (IF sb.policy.network THEN {} ELSE {"net"})
                                 \cup (IF sb.policy.gui THEN {} ELSE {"ipc"})])

\* sethostname, the MS_PRIVATE remount of /, the uid/gid maps,
\* pivot_root with the detach of the old root, PR_SET_NO_NEW_PRIVS, setrlimit.
SbHostStep ==
    \E name \in {"sethostname", "mount_private", "user_mapping", "pivot_root",
                  "no_new_privs", "rlimits"} : StepDone(name, sb)

\* tmpfs on /tmp/hpm_newroot_<pid>, the root to be.
SbNewRoot == StepDone("new_root", Mounted(sb, {<<>>}, FALSE))

\* for p in ro_paths: MS_BIND | MS_REC | MS_RDONLY
SbRoBinds == StepDone("ro_binds", Mounted(sb, RoPaths, TRUE))

\* path on <new_root>/app: MS_BIND | MS_REC
SbAppBind == StepDone("app_bind", Mounted(sb, {AppPath}, FALSE))

SbTmpMount == StepDone("tmp_mount", Mounted(sb, {<<"tmp">>}, FALSE))

SbGuiMount ==
    StepDone("gui_mount",
             IF sb.policy.gui THEN Mounted(sb, {<<"tmp", ".X11-unix">>}, FALSE) ELSE sb)

SbDevMount ==
    StepDone("dev_mount",
             IF sb.policy.dev THEN Mounted(sb, {<<"dev">>}, FALSE) ELSE sb)

\* for fs_p in &manifest.sandbox.filesystem: MS_BIND | MS_REC on
\* <new_root>/<fs_p>, whatever is mounted there already.
\* <new_root>/<p> exists: it is a mount point made earlier, or it lies in a
\* directory of the host bound into the new root.  create_dir_all makes the
\* parent of the target only.
TargetExists(c, p) ==
    \/ p \in DOMAIN c.mounts
    \/ \E m \in RoPaths \cap DOMAIN c.mounts : IsPrefix(m, p) /\ p \in c.host

\* sandbox.rs mounts the paths for which Path::new(fs_p).exists(), main.rs
\* every listed path.
FsToMount(c) ==
    IF c.impl = "module" THEN c.policy.filesystem \cap c.host ELSE c.policy.filesystem

\* mount(fs_p, target, MS_BIND | MS_REC): ENOENT unless source and target exist.
FsMountOk(c, p) == p \in c.host /\ TargetExists(c, p)

SbFsBinds ==
    /\ Cur = "fs_binds"
    /\ IF \A p \in FsToMount(sb) : FsMountOk(sb, p)
       THEN StepDone("fs_binds", Mounted(sb, FsToMount(sb), FALSE))
       ELSE ChildFails(FALSE)

SbProcSys == StepDone("proc_sys", Mounted(sb, {<<"proc">>, <<"sys">>}, FALSE))

\* The Landlock ruleset and restrict_self.
SbLandlock ==
    StepDone("landlock",
             [sb EXCEPT
                !.restricted = TRUE,
                !.rules =
                    {[path |-> p, access |-> RoAccess] : p \in RoPaths}
                    \cup {[path |-> p, access |-> ProcSysAccess] :
                             p \in {<<"proc">>, <<"sys">>}}
                    \cup {[path |-> p, access |-> AllAccess] :
                             p \in {AppPath, <<"tmp">>}
                                   \cup (IF sb.policy.dev THEN {<<"dev">>} ELSE {})
                                   \cup FsToMount(sb)}])

\* sandbox.rs: setup_seccomp (main.rs loads no filter).
SbSeccomp == StepDone("seccomp", [sb EXCEPT !.seccomp = TRUE])

\* chdir("/app")?
SbChdirApp ==
    /\ Cur = "chdir_app"
    /\ IF Syscall(sb, "chdir") = "ok"
       THEN StepDone("chdir_app", [sb EXCEPT !.cwd = AppPath])
       ELSE ChildFails(FALSE)

\* sandbox.rs: `if test { return Ok(()) }`, the child then calls exit(0);
\* otherwise execve of /bin/sh -c <install commands> or of /app/<bin>.
SbExec ==
    /\ Cur = "exec"
    /\ IF sb.mode = "test"
       THEN /\ sb' = [sb EXCEPT !.pc = "exited", !.exit = 0]
            /\ SandboxFrame
       ELSE IF Syscall(sb, "execve") = "ok"
       THEN /\ sb' = [sb EXCEPT !.pc = "payload",
                                !.exec = IF sb.mode = "install" THEN "sh" ELSE "bin",
                                !.done = Append(sb.done, "exec")]
            /\ SandboxFrame
       ELSE ChildFails(FALSE)

\* The host refuses the step the child is at (no permission to unshare, a
\* path that does not exist, ...): the call returns Err.
SbDenied ==
    /\ sb.pc = "setup"
    /\ ChildFails(TRUE)

\* The payload calls socket(AF_INET, ..).
PayloadSocket ==
    /\ sb.pc = "payload"
    /\ sb.sock = "none"
    /\ sb' = [sb EXCEPT !.sock = SocketInet(sb)]
    /\ SandboxFrame

\* The payload opens a file for writing.
PayloadWrite ==
    /\ sb.pc = "payload"
    /\ sb.wr = NoWrite
    /\ \E path \in WriteTargets :
         sb' = [sb EXCEPT !.wr = [path |-> path, res |-> WriteFile(sb, path)]]
    /\ SandboxFrame

\* The payload leaves a descendant that outlives it and keeps the
\* descriptors it inherited.
PayloadSpawn ==
    /\ sb.pc = "payload"
    /\ ~sb.spawned
    /\ sb' = [sb EXCEPT !.spawned = TRUE]
    /\ SandboxFrame

\* The payload ends.
PayloadExit ==
    /\ sb.pc = "payload"
    /\ \E c \in PayloadCodes : sb' = [sb EXCEPT !.pc = "exited", !.exit = c]
    /\ SandboxFrame

\* A signal ends the child: waitpid then reports WaitStatus::Signaled.
ChildKilled ==
    /\ sb.pc \in {"setup", "payload"}
    /\ sb' = [sb EXCEPT !.pc = "exited", !.sig = TRUE]
    /\ SandboxFrame

\* Some process still holds the write end of the pipe of sandbox.rs: the
\* parent dropped its own before waitpid, a process that ended holds none.
WriteEndOpen(c) ==
    c.impl = "module" /\ (c.pc \in {"setup", "payload"} \/ c.spawned)

\* The parent arm: waitpid(child) returns once the child has ended.
ParentWait ==
    /\ sb.parent = "waitpid"
    /\ sb.pc = "exited"
    /\ LET code == IF sb.sig THEN 1 ELSE sb.exit IN
       IF sb.impl = "main"
       THEN sb' = [sb EXCEPT !.parent = "returned",
                             !.perr = IF ~sb.sig /\ sb.exit = 0 THEN "ok" ELSE "err"]
       ELSE IF code # 0
       THEN sb' = [sb EXCEPT !.parent = "read"]
       ELSE sb' = [sb EXCEPT !.parent = "returned", !.perr = "ok"]
    /\ SandboxFrame

\* sandbox.rs: read(read_fd, buf) returns when the pipe holds data or no
\* process holds its write end; the parent returns Err with what it read.
ParentRead ==
    /\ sb.parent = "read"
    /\ sb.msg \/ ~WriteEndOpen(sb)
    /\ sb' = [sb EXCEPT !.parent = "returned", !.perr = "err", !.diag = sb.msg]
    /\ SandboxFrame

SandboxNext ==
    \/ SbFork
    \/ SbUnshare
    \/ SbHostStep
    \/ SbNewRoot
    \/ SbRoBinds
    \/ SbAppBind
    \/ SbTmpMount
    \/ SbGuiMount
    \/ SbDevMount
    \/ SbFsBinds
    \/ SbProcSys
    \/ SbLandlock
    \/ SbSeccomp
    \/ SbChdirApp
    \/ SbExec
    \/ SbDenied
    \/ PayloadSocket
    \/ PayloadWrite
    \/ PayloadSpawn
    \/ PayloadExit
    \/ ChildKilled
    \/ ParentWait
    \/ ParentRead

SandboxSpec == SandboxInit /\ [][SandboxNext]_vars

\* The parent is a running process: a waitpid or a read that can return does.
SandboxLiveSpec ==
    SandboxSpec /\ WF_vars(ParentWait) /\ WF_vars(ParentRead)

-----------------------------------------------------------------------------
(* Two backend processes in update_state at once (ConcSpec): each installs  *)
(* a package of its own and runs load_state, the entry insert and           *)
(* save_state on the one STATE_PATH.  main.rs saves with fs::write on       *)
(* STATE_PATH, state.rs with fs::write on STATE_PATH.tmp and fs::rename.    *)

\* The package each process installs.
ProcPkg == 1 :> "foo" @@ 2 :> "bar"

ConcFrame == UNCHANGED <<txVars, hashVars, cfg, mres, argv, out, pkgTree, sb>>

ConcInit ==
    /\ \E impl \in {"main", "module"}, file \in {StAbsent, StOk(RegFoo)} :
         conc = [NoConc EXCEPT !.impl = impl, !.file = file]
    /\ TxStart(Absent, StAbsent)
    /\ HashIdle /\ ManifestIdle /\ CliIdle /\ SandboxIdle

\* install has renamed the tree and calls update_state(name, version, checksum).
ConcStart(i) ==
    /\ conc.p[i].pc = "idle"
    /\ \E version \in Versions :
         conc' = [conc EXCEPT !.p[i].pc = "load", !.p[i].version = version]
    /\ ConcFrame

\* let mut state = load_state()?; and the entry insert.
ConcLoad(i) ==
    /\ conc.p[i].pc = "load"
    /\ LET st == load_state(conc.file)
       IN  IF st.ok
           THEN conc' = [conc EXCEPT
                           !.p[i].pc = "open",
                           !.p[i].loaded = RegInsert(st.reg, ProcPkg[i],
                                                     conc.p[i].version, ChecksumOld)]
           ELSE conc' = [conc EXCEPT !.p[i].pc = "failed"]
    /\ ConcFrame

\* fs::write: open with O_CREAT | O_TRUNC, of STATE_PATH (main.rs) or of
\* STATE_PATH.tmp (state.rs).
ConcOpen(i) ==
    /\ conc.p[i].pc = "open"
    /\ IF conc.impl = "main"
       THEN conc' = [conc EXCEPT !.file = StPartial, !.p[i].pc = "write",
                                 !.p[i].fd = "state"]
       ELSE conc' = [conc EXCEPT !.tmp = StPartial, !.p[i].pc = "write",
                                 !.p[i].fd = "tmp"]
    /\ ConcFrame

\* fs::write: write_all into the file the descriptor is open on and close;
\* main.rs has then saved.
ConcWrite(i) ==
    /\ conc.p[i].pc = "write"
    /\ LET data == StOk(conc.p[i].loaded)
           next == IF conc.impl = "main" THEN "done" ELSE "rename"
       IN  IF conc.p[i].fd = "state"
           THEN conc' = [conc EXCEPT !.file = data, !.p[i].pc = next,
                                     !.p[i].fd = "none"]
           ELSE conc' = [conc EXCEPT !.tmp = data, !.p[i].pc = next,
                                     !.p[i].fd = "none"]
    /\ ConcFrame

\* state.rs: fs::rename(tmp_path, STATE_PATH)?  ENOENT when the other process
\* has renamed the file away; a descriptor the other process holds open on
\* the renamed file follows it.
ConcRename(i) ==
    /\ conc.p[i].pc = "rename"
    /\ IF conc.tmp.k = "absent"
       THEN conc' = [conc EXCEPT !.p[i].pc = "failed"]
       ELSE conc' = [conc EXCEPT
                       !.file = conc.tmp, !.tmp = StAbsent,
                       !.p = [j \in Procs |->
                                IF j = i THEN [conc.p[j] EXCEPT !.pc = "done"]
                                ELSE IF conc.p[j].fd = "tmp"
                                THEN [conc.p[j] EXCEPT !.fd = "state"]
                                ELSE conc.p[j]]]
    /\ ConcFrame

\* Another invocation (verify, remove, ...) calls load_state.
ConcRead ==
    /\ conc.reader = "none"
    /\ conc' = [conc EXCEPT
                  !.reader = IF load_state(conc.file).ok THEN "ok" ELSE "unparseable"]
    /\ ConcFrame

ConcNext ==
    \/ \E i \in Procs : ConcStart(i)
    \/ \E i \in Procs : ConcLoad(i)
    \/ \E i \in Procs : ConcOpen(i)
    \/ \E i \in Procs : ConcWrite(i)
    \/ \E i \in Procs : ConcRename(i)
    \/ ConcRead

ConcSpec == ConcInit /\ [][ConcNext]_vars

-----------------------------------------------------------------------------
(* Manifest loading on its own (ManifestSpec): Manifest::load_info applied  *)
(* to the parsed manifests of a bounded family.                             *)

\* A map with the one entry key -> v, or no entry when the key is absent.
Opt(key, v) == IF v = None THEN NoEntries ELSE key :> v

\* metadata.name / metadata.license: absent, empty, or a proper string.
NameVals == {None, Str(""), Str("foo")}

LicenseVals == {None, Str(""), Str("MIT")}

\* metadata.bins: absent, a key with the empty value, a key with a non-empty
\* string value, a key with a value that is not a string.
BinsVals ==
    {None, Map("foo" :> Str("")), Map("foo" :> Str("x")), Map("foo" :> Bool(TRUE))}

\* [sandbox]: absent, all false, network given as a string, and a filesystem
\* entry with a non-empty value.
SandboxVals ==
    {None, SandboxClosed, Map("network" :> Str("yes")),
     Map("network" :> Bool(TRUE) @@ "filesystem" :> Map("/usr" :> Str("rw")))}

\* [install]: absent, a command key, a command key with a non-empty value.
InstallVals ==
    {None, Map("commands" :> Map("make" :> Str(""))),
     Map("commands" :> Map("make" :> Str("x")))}

Configs ==
    {Map(Opt("metadata",
             Map(Opt("name", n) @@ "version" :> Str("1.0")
                 @@ "authors" :> Str("hackeros") @@ Opt("license", l)
                 @@ Opt("bins", b)))
         @@ Opt("sandbox", x) @@ Opt("install", i)) :
        n \in NameVals, l \in LicenseVals, b \in BinsVals,
        x \in SandboxVals, i \in InstallVals}

ManifestInit ==
    /\ cfg \in Configs
    /\ mres = NotLoaded
    /\ TxStart(Absent, StAbsent)
    /\ HashIdle /\ CliIdle /\ SandboxIdle /\ ConcIdle

\* install: let manifest = Manifest::load_info(&tmp_path)?; an Err reaches
\* main, which reports InstallFailed.
LoadInfoCall ==
    /\ ~mres.called
    /\ mres' = [called |-> TRUE,
                m      |-> ManifestFrom(cfg),
                code   |-> IF ManifestFrom(cfg).ok THEN 0 ELSE InstallFailed]
    /\ UNCHANGED <<cfg, argv, out, pkgTree, sb, conc, txVars, hashVars>>

ManifestNext == LoadInfoCall

ManifestSpec == ManifestInit /\ [][ManifestNext]_vars

-----------------------------------------------------------------------------
(* Properties of Manifest::load_info (ManifestSpec). *)

\* Some value of the key-set submap is a string other than "".
HasNonEmptyString(sub) ==
    sub.t = "map" /\ \E k \in DOMAIN sub.m : sub.m[k].t = "str" /\ sub.m[k].s # ""

\* The key is present in the section but its value is not a boolean.
PresentNotBool(sec, key) ==
    sec.t = "map" /\ key \in DOMAIN sec.m /\ sec.m[key].t # "bool"

\* The manifests C17 is about.
Offending(config) ==
    \/ HasNonEmptyString(GetMap(Get(config, "metadata"), "bins"))
    \/ HasNonEmptyString(GetMap(Get(config, "sandbox"), "filesystem"))
    \/ HasNonEmptyString(GetMap(GetMap(config, "install"), "commands"))
    \/ \E k \in {"network", "gui", "dev"} : PresentNotBool(Get(config, "sandbox"), k)

\* C17 (as claimed): a manifest with a non-empty string value in a key-set
\* submap, or with a non-boolean sandbox.network / gui / dev, is rejected by
\* Manifest::load_info (InstallFailed); it is never loaded with the entry
\* dropped or the default substituted.
C17_StrictManifest ==
    (mres.called /\ Offending(cfg)) => (~mres.m.ok /\ mres.code = InstallFailed)

\* C18 (as claimed): every Manifest that Manifest::load_info returns has
\* non-empty name, version, authors and license and comes from a file with
\* a [sandbox] section.
C18_RequiredFieldsNonEmpty ==
    (mres.called /\ mres.m.ok) =>
        /\ mres.m.name # "" /\ mres.m.version # ""
        /\ mres.m.authors # "" /\ mres.m.license # ""
        /\ Get(cfg, "sandbox").t = "map"

-----------------------------------------------------------------------------
(* Properties of main's dispatch, verify arm and run arm (CliSpec). *)

\* The closed set of error codes.
ErrorCodes == {1, 2, 3, 4, 5, 6, 99}

\* The commands of the command table with their minimum number of
\* positional arguments.
MinArity ==
    [install |-> 4, remove |-> 3, verify |-> 2, run |-> 2]
        @@ ("verify-signature" :> 2) @@ ("list-installed" :> 0)
        @@ ("sandbox-test" :> 1)

\* main has handled an invocation by itself.
Handled == out # NoOut

\* C11 (as claimed): every failing invocation, of every subcommand including
\* run, writes the JSON error object to stderr and exits with the code in
\* it, a code of the closed set; install and remove do so through
\* output_error as well.
C11_FailuresAreJson ==
    /\ (Handled /\ out.exit # 0) =>
           /\ out.stderr = "json"
           /\ out.code = out.exit
           /\ out.exit \in ErrorCodes
    /\ result.kind = "err" => result.code \in ErrorCodes

\* C12 (as claimed): each command of the table is routed to its operation
\* when it has its minimum number of arguments and fails with InvalidArgs
\* when it has fewer (as does an empty argv); UnknownCommand is the answer to
\* any other word and to no word of the table.
C12_Dispatch ==
    Handled =>
        /\ (argv.cmd \in DOMAIN MinArity /\ argv.n >= MinArity[argv.cmd])
               => out.routed = argv.cmd
        /\ ((argv.cmd \in DOMAIN MinArity /\ argv.n < MinArity[argv.cmd])
               \/ argv.cmd = "")
               => out.exit = InvalidArgs
        /\ (out.code = UnknownCommand) <=> (argv.cmd \notin DOMAIN MinArity \cup {""})

\* C13 (as claimed): whatever code the payload exec'd by run ends with,
\* the backend exits with that code.
C13_RunPropagatesExitStatus ==
    (Handled /\ argv.cmd = "run" /\ out.payload # -1) => out.exit = out.payload

\* C19 (as claimed): an invocation of verify, run, list-installed or
\* sandbox-test leaves the registry, the store trees (the package's own tree
\* under STORE_PATH/<name>/current included) and /usr/bin as they were.
C19_ReadOnlyCommands ==
    [][(/\ calls' = calls + 1
        /\ pc' = "idle"
        /\ argv'.cmd \in {"verify", "run", "list-installed", "sandbox-test"})
          => UNCHANGED <<stateFile, finalTree, pkgTree, usrBin>>]_vars

-----------------------------------------------------------------------------
(* Properties of the sandbox child (SandboxSpec). *)

\* A file under one of the system directories.
UnderSystemDir(path) == \E p \in RoPaths : IsPrefix(p, path)

\* C14 (as claimed): in test mode, on a host that permits every setup
\* step, the child goes through all steps up to chdir("/app"), returns
\* without exec and exits 0.
C14_SandboxTestSucceeds ==
    (sb.mode = "test" /\ sb.pc = "exited" /\ ~sb.denied) =>
        /\ sb.exit = 0
        /\ sb.cwd = AppPath
        /\ sb.exec = "none"

\* C15 (as claimed): with sandbox.network = false, in install mode and in
\* run mode, the payload's socket(AF_INET, ..) fails with EPERM or EACCES.
C15_NetworkClosed ==
    (sb.pc = "payload" /\ ~sb.policy.network /\ sb.sock # "none") =>
        sb.sock \in {"EPERM", "EACCES"}

\* C16 (as claimed): for every manifest, whatever its sandbox.filesystem
\* names, a write of the payload to a file under /usr, /lib, /lib64, /bin or
\* /etc fails, and the rights granted on those directories include no write
\* right.
C16_SystemReadOnly ==
    sb.pc = "payload" =>
        /\ (sb.wr # NoWrite /\ UnderSystemDir(sb.wr.path)) => sb.wr.res # "ok"
        /\ \A path \in WriteTargets :
               UnderSystemDir(path) => Granted(sb, path) \cap WriteAccess = {}

\* C22: a child that reached exec went through exactly these steps, in this
\* order: unshare, hostname, private mounts, uid_map / setgroups deny /
\* gid_map, the new root, the bind mounts, pivot_root, no_new_privs, resource
\* limits, Landlock, seccomp, chdir("/app"), exec.
SpecifiedOrder ==
    <<"unshare", "sethostname", "mount_private", "user_mapping", "new_root",
      "ro_binds", "app_bind", "tmp_mount", "gui_mount", "dev_mount", "fs_binds",
      "proc_sys", "pivot_root", "no_new_privs", "rlimits", "landlock", "seccomp",
      "chdir_app", "exec">>

C22_ChildStepOrder == sb.exec # "none" => sb.done = SpecifiedOrder

\* C23: once unshare has returned the child is in new user, mount, UTS, PID
\* and cgroup namespaces, in a new network namespace exactly when
\* sandbox.network is false and in a new IPC namespace exactly when
\* sandbox.gui is false.
C23_Namespaces ==
    sb.done # <<>> =>
        /\ {"user", "mnt", "uts", "pid", "cgroup"} \subseteq sb.ns
        /\ sb.ns \subseteq {"user", "mnt", "uts", "pid", "cgroup", "net", "ipc"}
        /\ "net" \in sb.ns <=> ~sb.policy.network
        /\ "ipc" \in sb.ns <=> ~sb.policy.gui

C23_Witness ==
    /\ sb.pc = "payload"
    /\ sb.policy.network /\ ~sb.policy.gui
    /\ sb.ns = {"user", "mnt", "uts", "pid", "cgroup", "ipc"}

\* C24: a child whose setup step failed has written a diagnostic to the pipe
\* and exited with status 1, and the parent returns an error that carries the
\* diagnostic; a child ended by a signal is a failure for the parent.
C24_FailureReporting ==
    sb.parent = "returned" =>
        /\ sb.failedAt # "none" =>
              sb.exit = 1 /\ sb.msg /\ sb.perr = "err" /\ sb.diag
        /\ sb.sig => sb.perr = "err"

C26_FilesystemPaths ==
    /\ (sb.failedAt \in {"fs_binds", "landlock"}) => sb.denied
    /\ sb.restricted =>
          \A p \in FsPaths :
              (p \in sb.policy.filesystem /\ p \in sb.host) <=>
                  /\ [path |-> p, access |-> AllAccess] \in sb.rules
                  /\ p \in DOMAIN sb.mounts /\ ~sb.mounts[p]

\* C28: installing or running, a child that has loaded the seccomp filter and
\* is refused nothing by the host goes on to exec the payload.
C28_ExecAfterSeccomp ==
    (sb.seccomp /\ sb.mode # "test" /\ sb.pc = "exited" /\ ~sb.denied /\ ~sb.sig)
        => sb.exec # "none"

-----------------------------------------------------------------------------
(* Properties of concurrent update_state (ConcSpec). *)

\* C27: when two processes install different packages at once and both
\* succeed, the registry holds both entries afterwards, and no reader of
\* STATE_PATH ever finds a truncated or partly written file.
C27_ConcurrentInstallsKeepEntries ==
    /\ (\A i \in Procs : conc.p[i].pc = "done") =>
          \A i \in Procs : Registered(conc.file, ProcPkg[i], conc.p[i].version)
    /\ conc.reader # "unparseable"

====
